---- MODULE Spec2Model ----
(***************************************************************************)
(* quantum_matter_lib: RuO2 resistance thermometry.                        *)
(*                                                                         *)
(*   measurements/thermometry.py   temperature_ruo2 (catalog conversion)   *)
(*   gui/thermometry_ui.py         WorkerTempReading, MainWindow,          *)
(*                                 EditWindow (lock-in panel)              *)
(*                                                                         *)
(* Numbers.  Python/numpy floats are modelled as exact reals plus the      *)
(* IEEE special values; rounding is not modelled.  Three sorts occur:      *)
(*   Rat  <<n, m>>, m > 0, lowest terms: readings, resistances, R0         *)
(*   Lin  a polynomial with integer coefficients in ln(q), q a Rat, or     *)
(*        nan / +inf / -inf: the logarithm l_r and the running sum         *)
(*   Tmp  s * exp(polynomial in ln(q)), s a natural, or nan / +inf:        *)
(*        temperatures and displayed numbers                               *)
(* ln(q) is transcendental for rational q # 1, so two Lin (or Tmp) values  *)
(* are equal exactly when their canonical representations are equal.       *)
(***************************************************************************)
EXTENDS Integers, Sequences, FiniteSets, TLC

VARIABLES
    \* ---- pure conversions (SpecConv) ----
    catalog,      \* content of RESISTANCE_CALIBRATION_FILE
    liveConfig,   \* the dict held by a WorkerTempReading (contents only)
    ruo,          \* last call of temperature_ruo2: arguments and outcome
    live,         \* last call of get_T: readings and outcome
    \* ---- the lock-in panel (Spec) ----
    status,         \* MainWindow.status: 0 disconnected, 1 connected
    lockin,         \* MainWindow.lockin: "None" or "SR830"
    config,         \* MainWindow.config: the dict (identity id, contents val)
    worker_temp,    \* MainWindow.worker_temp: 0 (None) or a worker
    workers,        \* the WorkerTempReading objects created so far
    thread_running, \* thread_temp has been started
    started_conns,  \* run slots connected to thread_temp.started, in order
    thread_queue,   \* events posted to thread_temp: queued update_config calls
    edit_window,    \* MainWindow.edit_window: "None", "shown" or "hidden"
    send_conns,     \* connections of EditWindow.send_config, in order
    main_queue,     \* update(float) emissions queued to the GUI thread
    lcd,            \* what the panel shows: temp.display(..), temp_l.setText(..)
    frame,          \* get_T's locals in the run that is executing
    hist            \* history: clicks, saves, the last value given to update_LCD

convVars == <<catalog, liveConfig, ruo, live>>
guiVars == <<status, lockin, config, worker_temp, workers, thread_running,
             started_conns, thread_queue, edit_window, send_conns, main_queue,
             lcd, frame, hist>>
vars == <<catalog, liveConfig, ruo, live, status, lockin, config, worker_temp,
          workers, thread_running, started_conns, thread_queue, edit_window,
          send_conns, main_queue, lcd, frame, hist>>

\* ------------------------------------------------------------------------
\* Bounds of the model
\* ------------------------------------------------------------------------
MaxReading == 2
MaxR0 == 2
MaxWorkers == 2     \* successful Connect clicks
MaxEdits == 1       \* Edit clicks
MaxPending == 1     \* update emissions waiting in the GUI thread's queue

\* ------------------------------------------------------------------------
\* Rationals
\* ------------------------------------------------------------------------
Abs(n) == IF n < 0 THEN -n ELSE n

RECURSIVE GCD(_, _)
GCD(a, b) == IF b = 0 THEN a ELSE GCD(b, a % b)

\* n/m in lowest terms with a positive denominator (m # 0)
Rat(n, m) ==
    LET g == GCD(Abs(n), Abs(m))
        s == IF m < 0 THEN -1 ELSE 1
    IN  <<(s * n) \div g, (s * m) \div g>>

RatInt(n) == <<n, 1>>
RatDiv(a, b) == Rat(a[1] * b[2], a[2] * b[1])
RatSub(a, b) == Rat(a[1] * b[2] - b[1] * a[2], a[2] * b[2])
RatLe(a, b) == a[1] * b[2] <= b[1] * a[2]

\* ------------------------------------------------------------------------
\* Polynomials with integer coefficients (sequences, constant term first,
\* no trailing zero; <<>> is the zero polynomial)
\* ------------------------------------------------------------------------
RECURSIVE Trim(_)
Trim(c) ==
    IF c = <<>> THEN <<>>
    ELSE IF c[Len(c)] = 0 THEN Trim(SubSeq(c, 1, Len(c) - 1)) ELSE c

Coef(c, i) == IF i <= Len(c) THEN c[i] ELSE 0
Max(a, b) == IF a >= b THEN a ELSE b

PolyAdd(a, b) == Trim([i \in 1..Max(Len(a), Len(b)) |-> Coef(a, i) + Coef(b, i)])
PolyScale(n, a) == Trim([i \in 1..Len(a) |-> n * a[i]])

RECURSIVE Convolve(_, _, _, _)
\* sum over i in 1..j of a[i] * b[k - i + 1]
Convolve(a, b, k, j) ==
    IF j = 0 THEN 0
    ELSE Coef(a, j) * (IF k - j + 1 >= 1 THEN Coef(b, k - j + 1) ELSE 0)
         + Convolve(a, b, k, j - 1)

PolyMul(a, b) ==
    IF a = <<>> \/ b = <<>> THEN <<>>
    ELSE Trim([k \in 1..(Len(a) + Len(b) - 1) |-> Convolve(a, b, k, k)])

RECURSIVE PolyPow(_, _)
PolyPow(a, i) == IF i = 0 THEN <<1>> ELSE PolyMul(a, PolyPow(a, i - 1))

\* ------------------------------------------------------------------------
\* Lin: the values of l_r and sum
\* ------------------------------------------------------------------------
NoArg == <<1, 1>>
LinFin(q, c) ==
    LET t == Trim(c)
    IN  [k |-> "fin", q |-> IF Len(t) <= 1 THEN NoArg ELSE q, c |-> t]
LinNaN == [k |-> "nan", q |-> NoArg, c |-> <<>>]
LinPInf == [k |-> "pinf", q |-> NoArg, c |-> <<>>]
LinNInf == [k |-> "ninf", q |-> NoArg, c |-> <<>>]
LinInt(n) == LinFin(NoArg, <<n>>)

\* np.log of a real: nan below zero, -inf at zero (numpy warns, does not raise)
Log(d) ==
    IF d[1] < 0 THEN LinNaN
    ELSE IF d[1] = 0 THEN LinNInf
    ELSE IF d = NoArg THEN LinInt(0)
    ELSE LinFin(d, <<0, 1>>)

\* x ** i for an int i >= 0: pow(x, 0) is 1 for every x, nan and inf included
LinPow(x, i) ==
    IF i = 0 THEN LinInt(1)
    ELSE CASE x.k = "nan" -> LinNaN
           [] x.k = "pinf" -> LinPInf
           [] x.k = "ninf" -> IF i % 2 = 1 THEN LinNInf ELSE LinPInf
           [] x.k = "fin" -> LinFin(x.q, PolyPow(x.c, i))

\* a * y for a finite coefficient a
LinScale(a, y) ==
    CASE y.k = "nan" -> LinNaN
      [] y.k = "fin" -> LinFin(y.q, PolyScale(a, y.c))
      [] y.k \in {"pinf", "ninf"} ->
            IF a = 0 THEN LinNaN
            ELSE IF (a > 0) = (y.k = "pinf") THEN LinPInf ELSE LinNInf

LinAdd(s, t) ==
    CASE s.k = "nan" \/ t.k = "nan" -> LinNaN
      [] s.k = "fin" /\ t.k = "fin" ->
            LinFin(IF Len(s.c) > 1 THEN s.q ELSE t.q, PolyAdd(s.c, t.c))
      [] s.k = "fin" /\ t.k # "fin" -> t
      [] s.k # "fin" /\ t.k = "fin" -> s
      [] s.k \in {"pinf", "ninf"} /\ t.k \in {"pinf", "ninf"} ->
            IF s.k = t.k THEN s ELSE LinNaN

\* ------------------------------------------------------------------------
\* Tmp: s * exp(c(ln q)); temperatures and displayed numbers
\* ------------------------------------------------------------------------
TmpFin(s, q, c) ==
    IF s = 0 THEN [k |-> "fin", s |-> 0, q |-> NoArg, c |-> <<>>]
    ELSE [k |-> "fin", s |-> s, q |-> IF Len(c) <= 1 THEN NoArg ELSE q, c |-> c]
TmpNaN == [k |-> "nan", s |-> 0, q |-> NoArg, c |-> <<>>]
TmpPInf == [k |-> "pinf", s |-> 0, q |-> NoArg, c |-> <<>>]
TmpInt(n) == TmpFin(n, NoArg, <<>>)

\* np.exp
Exp(s) ==
    CASE s.k = "nan" -> TmpNaN
      [] s.k = "pinf" -> TmpPInf
      [] s.k = "ninf" -> TmpInt(0)
      [] s.k = "fin" -> TmpFin(1, s.q, s.c)

\* 1 / np.exp(sum): numpy division, 1/0 is inf (a warning, not an exception)
Recip(t) ==
    CASE t.k = "nan" -> TmpNaN
      [] t.k = "pinf" -> TmpInt(0)
      [] t.k = "fin" /\ t.s = 0 -> TmpPInf
      [] t.k = "fin" /\ t.s = 1 -> TmpFin(1, t.q, PolyScale(-1, t.c))

\* value * 1e3
Times1000(t) == IF t.k = "fin" THEN TmpFin(t.s * 1000, t.q, t.c) ELSE t

\* ------------------------------------------------------------------------
\* Outcomes of a call
\* ------------------------------------------------------------------------
Ret(v) == [kind |-> "return", exc |-> "", msg |-> "", val |-> v]
Raise(e, m) == [kind |-> "raise", exc |-> e, msg |-> m, val |-> TmpNaN]
NoOutcome == [kind |-> "none", exc |-> "", msg |-> "", val |-> TmpNaN]

\* one pass of the loop body: sum += a_i * l_r**i
SumStep(sum, ai, l_r, i) == LinAdd(sum, LinScale(ai, LinPow(l_r, i)))

RECURSIVE PolySum(_, _, _, _)
\* the loop "for i in range(len(a))", from index i with running sum acc
PolySum(a, l_r, i, acc) ==
    IF i >= Len(a) THEN acc
    ELSE PolySum(a, l_r, i + 1, SumStep(acc, a[i + 1], l_r, i))

\* ------------------------------------------------------------------------
\* measurements/thermometry.py
\* ------------------------------------------------------------------------
temperature_ruo2(cat, resistance, name) ==
    CASE cat.top = "missing" -> Raise("FileNotFoundError", "")
      [] cat.top = "unparsable" -> Raise("JSONDecodeError", "")
      [] cat.top = "nokey" -> Raise("KeyError", "ruo2")
      [] cat.top = "null" -> Raise("Exception", "Unable to parse data file.")
      [] cat.top = "map" ->
            IF ~cat.data[name].present
            THEN Raise("Exception", "Resistance does not exist in configuration file.")
            ELSE LET r_data == cat.data[name] IN
                 IF (~r_data.hasR0) \/ (~r_data.hasA)
                 THEN Raise("Exception", "The calibration for this resistance is not valid.")
                 ELSE LET l_r == Log(RatSub(resistance, RatInt(r_data.R0)))
                          sum == PolySum(r_data.a, l_r, 0, LinInt(0))
                      IN  Ret(Recip(Exp(sum)))

\* ------------------------------------------------------------------------
\* gui/thermometry_ui.py: WorkerTempReading.get_T on one configuration
\* ------------------------------------------------------------------------
ConfigCoefs(cfg) ==
    <<cfg.a0, cfg.a1, cfg.a2, cfg.a3, cfg.a4, cfg.a5>>

\* i = sine_voltage / bias_resistance ; r = v / i   (Python float division)
DivisionRaises(sv, bias) == bias = 0 \/ sv = 0
DerivedResistance(v, sv, bias) == RatDiv(RatInt(v), RatDiv(RatInt(sv), RatInt(bias)))

\* (mutant) the live path drifts from the catalog path: range(5)
get_T_drift(v, sv, cfg) ==
    IF DivisionRaises(sv, cfg.bias_resistance)
    THEN Raise("ZeroDivisionError", "")
    ELSE LET r == DerivedResistance(v, sv, cfg.bias_resistance)
             l_r == Log(RatSub(r, RatInt(cfg.R0)))
             sum == PolySum(SubSeq(ConfigCoefs(cfg), 1, 5), l_r, 0, LinInt(0))
         IN  Ret(Recip(Exp(sum)))

get_T(v, sv, cfg) ==
    IF DivisionRaises(sv, cfg.bias_resistance)
    THEN Raise("ZeroDivisionError", "")
    ELSE LET r == DerivedResistance(v, sv, cfg.bias_resistance)
             l_r == Log(RatSub(r, RatInt(cfg.R0)))
             sum == PolySum(ConfigCoefs(cfg), l_r, 0, LinInt(0))
         IN  Ret(Recip(Exp(sum)))

\* ------------------------------------------------------------------------
\* Inputs of the pure conversions
\* ------------------------------------------------------------------------
Names == {"s1", "S1"}
R0s == 1..MaxR0
Readings == 1..MaxReading
SineVoltages == 0..MaxReading
BiasResistances == 0..2

Coefs6 == { <<0, 0, 0, 0, 0, 0>>, <<1, 0, 0, 0, 0, 0>>,
            <<0, 1, 0, 0, 0, 0>>, <<1, -1, 0, 0, 0, 2>> }
CatalogCoefs == Coefs6 \cup { <<>>, <<0>>, <<1, 2>> }

MkConfig(bias, lv, R0, a) ==
    [bias_resistance |-> bias, lockin_voltage |-> lv, R0 |-> R0,
     a0 |-> a[1], a1 |-> a[2], a2 |-> a[3], a3 |-> a[4], a4 |-> a[5], a5 |-> a[6]]

LiveConfigs == { MkConfig(b, 1, R0, a) : b \in BiasResistances, R0 \in R0s, a \in Coefs6 }

Absent == [present |-> FALSE, hasR0 |-> FALSE, R0 |-> 0, hasA |-> FALSE, a |-> <<>>]
Entries ==
    { Absent,
      [present |-> TRUE, hasR0 |-> FALSE, R0 |-> 0, hasA |-> TRUE, a |-> <<0>>],
      [present |-> TRUE, hasR0 |-> TRUE, R0 |-> 1, hasA |-> FALSE, a |-> <<>>] }
    \cup { [present |-> TRUE, hasR0 |-> TRUE, R0 |-> R0, hasA |-> TRUE, a |-> a] :
             R0 \in R0s, a \in CatalogCoefs }
OtherEntries == { Absent, [present |-> TRUE, hasR0 |-> TRUE, R0 |-> 1, hasA |-> TRUE, a |-> <<0>>] }

NoData == [n \in Names |-> Absent]
Catalogs ==
    { [top |-> t, data |-> NoData] : t \in {"missing", "unparsable", "nokey", "null"} }
    \cup { [top |-> "map", data |-> [n \in Names |-> IF n = "s1" THEN e ELSE o]] :
             e \in Entries, o \in OtherEntries }

Resistances ==
    { RatInt(n) : n \in 0..(MaxR0 + 2) }
    \cup { DerivedResistance(v, sv, b) :
             v \in Readings, sv \in SineVoltages \ {0}, b \in BiasResistances \ {0} }

NoRuo == [called |-> FALSE, resistance |-> RatInt(0), name |-> "s1", out |-> NoOutcome]
NoLive == [called |-> FALSE, v |-> 0, sv |-> 0, out |-> NoOutcome]

\* ------------------------------------------------------------------------
\* gui/thermometry_ui.py: the state after MainWindow.__init__
\* ------------------------------------------------------------------------
Zeros6 == <<0, 0, 0, 0, 0, 0>>
\* bias_resistance, lockin_voltage, R0 in model units; coefficients all zero
CONFIG_DEFAULT == MkConfig(1, 1, 1, Zeros6)

\* what the user types into the EditWindow fields before Save
EditInputs == { MkConfig(2, 1, 2, <<1, 0, 0, 0, 0, 0>>) }
\* what the instrument answers to lockin.x and lockin.sine_voltage
GuiReadings == {2}
GuiSineVoltages == {0, 1}

NoFrame == [v |-> 0, sv |-> 0, r |-> RatInt(0), l_r |-> LinInt(0), sum |-> LinInt(0),
            idx |-> 0, reads |-> {}, swapped |-> FALSE]

NoHist == [last_ok |-> "none", last_failed |-> FALSE, connects |-> 0,
           lcd_set |-> FALSE, lcd_last |-> TmpInt(0), saves |-> 0]

InitGuiVars ==
    /\ status = 0
    /\ lockin = "None"
    /\ config = [id |-> 0, val |-> CONFIG_DEFAULT]
    /\ worker_temp = 0
    /\ workers = <<>>
    /\ thread_running = FALSE
    /\ started_conns = <<>>
    /\ thread_queue = <<>>
    /\ edit_window = "None"
    /\ send_conns = [to_main |-> 0, to_worker |-> <<>>]
    /\ main_queue = <<>>
    /\ lcd = [value |-> TmpInt(0), unit |-> "K"]
    /\ frame = NoFrame
    /\ hist = NoHist

\* ------------------------------------------------------------------------
\* WorkerTempReading
\* ------------------------------------------------------------------------
\* pc of a worker's run slot:
\*   "idle"    run has never been invoked
\*   "start"   run invoked, "self.running = True" not yet executed
\*   "test"    at the while test
\*   "get_x" .. "get_a"   inside get_T
\*   "emit"    get_T returned, update.emit not yet executed
\*   "sleep"   in time.sleep(3)
\*   "done"    run returned;  "raised"  run left by an exception
GetTPcs == {"get_x", "get_sv", "get_bias", "get_R0", "get_a"}
LoopPcs == {"start", "test", "sleep", "emit"} \cup GetTPcs

WorkerTempReading(cfg) ==
    [config |-> cfg, running |-> "unset", pc |-> "idle",
     stop_called |-> FALSE, saved |-> 0, must |-> 0, failed |-> FALSE]

Workers == 1..Len(workers)
Executing(w) == workers[w].pc \in LoopPcs

\* (mutant) update_config is called in the emitting thread, as for a worker
\* that was never moved to thread_temp
ThreadIdle_direct == thread_running

\* thread_temp runs its event loop, and with it queued slots, only while no
\* run slot is executing in it: run never returns to the event loop
ThreadIdle == thread_running /\ \A w \in Workers : ~Executing(w)

SetPc(w, p) == workers' = [workers EXCEPT ![w].pc = p]

\* line 72: self.running = True
run_start(w) ==
    /\ workers[w].pc = "start"
    /\ workers' = [workers EXCEPT ![w].running = "True", ![w].pc = "test"]
    /\ UNCHANGED <<status, lockin, config, worker_temp, thread_running, started_conns,
                   thread_queue, edit_window, send_conns, main_queue, lcd, frame, hist,
                   convVars>>

\* line 73: while self.running
run_test(w) ==
    /\ workers[w].pc = "test"
    /\ IF workers[w].running = "True"
       THEN workers' = [workers EXCEPT ![w].pc = "get_x", ![w].must = workers[w].saved]
       ELSE SetPc(w, "done")
    /\ frame' = NoFrame
    /\ UNCHANGED <<status, lockin, config, worker_temp, thread_running, started_conns,
                   thread_queue, edit_window, send_conns, main_queue, lcd, hist,
                   convVars>>

\* an exception leaves get_T and run: nothing in run catches it.  The thread
\* is modelled as going back to its event loop; a process that PyQt aborts
\* on the unhandled exception takes no further step, which is a prefix of
\* the behaviours modelled here.
Raised(w) == workers' = [workers EXCEPT ![w].pc = "raised", ![w].failed = TRUE]

\* line 56: v = self.lockin.x  (the read may fail with a connectivity error)
get_T_x(w) ==
    /\ workers[w].pc = "get_x"
    /\ \/ \E v \in GuiReadings :
            /\ frame' = [frame EXCEPT !.v = v]
            /\ SetPc(w, "get_sv")
       \/ Raised(w) /\ frame' = NoFrame
    /\ UNCHANGED <<status, lockin, config, worker_temp, thread_running, started_conns,
                   thread_queue, edit_window, send_conns, main_queue, lcd, hist,
                   convVars>>

\* line 57, left operand: self.lockin.sine_voltage
get_T_sv(w) ==
    /\ workers[w].pc = "get_sv"
    /\ \/ \E sv \in GuiSineVoltages :
            /\ frame' = [frame EXCEPT !.sv = sv]
            /\ SetPc(w, "get_bias")
       \/ Raised(w) /\ frame' = NoFrame
    /\ UNCHANGED <<status, lockin, config, worker_temp, thread_running, started_conns,
                   thread_queue, edit_window, send_conns, main_queue, lcd, hist,
                   convVars>>

\* line 57, right operand and division; line 58: r = v/i
get_T_bias(w) ==
    /\ workers[w].pc = "get_bias"
    /\ LET cfg == workers[w].config
           bias == cfg.val.bias_resistance
       IN  IF DivisionRaises(frame.sv, bias)
           THEN Raised(w) /\ frame' = NoFrame
           ELSE /\ frame' = [frame EXCEPT !.r = DerivedResistance(frame.v, frame.sv, bias),
                                          !.v = 0, !.sv = 0,
                                          !.reads = @ \cup {cfg.id}]
                /\ SetPc(w, "get_R0")
    /\ UNCHANGED <<status, lockin, config, worker_temp, thread_running, started_conns,
                   thread_queue, edit_window, send_conns, main_queue, lcd, hist,
                   convVars>>

\* lines 59-60: l_r = np.log(r - self.config["R0"]); sum = 0
get_T_R0(w) ==
    /\ workers[w].pc = "get_R0"
    /\ LET cfg == workers[w].config
       IN  frame' = [frame EXCEPT !.l_r = Log(RatSub(frame.r, RatInt(cfg.val.R0))),
                                  !.sum = LinInt(0), !.idx = 0, !.r = RatInt(0),
                                  !.reads = @ \cup {cfg.id}]
    /\ SetPc(w, "get_a")
    /\ UNCHANGED <<status, lockin, config, worker_temp, thread_running, started_conns,
                   thread_queue, edit_window, send_conns, main_queue, lcd, hist,
                   convVars>>

\* lines 61-62: one pass of "for i in range(6)"
get_T_a(w) ==
    /\ workers[w].pc = "get_a"
    /\ LET cfg == workers[w].config
           ai == ConfigCoefs(cfg.val)[frame.idx + 1]
       IN  frame' = [frame EXCEPT !.sum = SumStep(frame.sum, ai, frame.l_r, frame.idx),
                                  !.idx = IF frame.idx = 5 THEN 0 ELSE @ + 1,
                                  !.l_r = IF frame.idx = 5 THEN LinInt(0) ELSE @,
                                  !.reads = @ \cup {cfg.id}]
    /\ IF frame.idx = 5 THEN SetPc(w, "emit") ELSE UNCHANGED workers
    /\ UNCHANGED <<status, lockin, config, worker_temp, thread_running, started_conns,
                   thread_queue, edit_window, send_conns, main_queue, lcd, hist,
                   convVars>>

\* lines 63 and 74: self.update.emit(1/np.exp(sum)); MainWindow lives in the
\* GUI thread, so the connected update_LCD is queued there
run_emit(w) ==
    /\ workers[w].pc = "emit"
    /\ Len(main_queue) < MaxPending
    /\ main_queue' = Append(main_queue, Recip(Exp(frame.sum)))
    /\ SetPc(w, "sleep")
    /\ frame' = NoFrame
    /\ UNCHANGED <<status, lockin, config, worker_temp, thread_running, started_conns,
                   thread_queue, edit_window, send_conns, lcd, hist,
                   convVars>>

\* line 75: time.sleep(3)
run_sleep(w) ==
    /\ workers[w].pc = "sleep"
    /\ SetPc(w, "test")
    /\ UNCHANGED <<status, lockin, config, worker_temp, thread_running, started_conns,
                   thread_queue, edit_window, send_conns, main_queue, lcd, frame, hist,
                   convVars>>

\* lines 81-83: a queued update_config, run by thread_temp's event loop
update_config ==
    /\ ThreadIdle
    /\ thread_queue # <<>>
    /\ LET e == Head(thread_queue)
       IN  workers' = [workers EXCEPT ![e.w].config = e.cfg]
    /\ thread_queue' = Tail(thread_queue)
    /\ UNCHANGED <<status, lockin, config, worker_temp, thread_running, started_conns,
                   edit_window, send_conns, main_queue, lcd, frame, hist,
                   convVars>>

\* ------------------------------------------------------------------------
\* MainWindow (every slot below runs in the GUI thread, one at a time)
\* ------------------------------------------------------------------------
\* lines 156-168: SR830(..) or the probe read lockin.x raised
connect_slot_failed ==
    /\ status = 0
    /\ lockin' = "None"
    /\ hist' = [hist EXCEPT !.last_failed = TRUE]
    /\ UNCHANGED <<status, config, worker_temp, workers, thread_running, started_conns,
                   thread_queue, edit_window, send_conns, main_queue, lcd, frame,
                   convVars>>

\* lines 157-158, 170-179: the worker is created on the current config dict;
\* QThread.start() starts the thread and emits started once, and does
\* nothing on a thread that is already running
connect_slot_connect ==
    /\ status = 0
    /\ Len(workers) < MaxWorkers
    /\ lockin' = "SR830"
    /\ status' = 1
    /\ LET w == Len(workers) + 1
           created == Append(workers, WorkerTempReading(config))
       IN  /\ worker_temp' = w
           /\ started_conns' = Append(started_conns, w)
           /\ workers' = IF thread_running THEN created
                         ELSE [x \in 1..w |->
                                 IF x = w THEN [created[x] EXCEPT !.pc = "start"]
                                 ELSE created[x]]
    /\ thread_running' = TRUE
    /\ hist' = [hist EXCEPT !.last_ok = "connect", !.last_failed = FALSE,
                            !.connects = @ + 1]
    /\ UNCHANGED <<config, thread_queue, edit_window, send_conns, main_queue, lcd, frame,
                   convVars>>

\* lines 77-79
stop(w) == [workers EXCEPT ![w].running = "False", ![w].stop_called = TRUE]

\* lines 180-185
connect_slot_disconnect ==
    /\ status = 1
    /\ workers' = IF worker_temp # 0 THEN stop(worker_temp) ELSE workers
    /\ status' = 0
    /\ hist' = [hist EXCEPT !.last_ok = "disconnect", !.last_failed = FALSE]
    /\ UNCHANGED <<lockin, config, worker_temp, thread_running, started_conns,
                   thread_queue, edit_window, send_conns, main_queue, lcd, frame,
                   convVars>>

\* lines 187-193
edit_slot ==
    /\ send_conns.to_main < MaxEdits
    /\ send_conns' = [to_main |-> send_conns.to_main + 1,
                      to_worker |-> IF worker_temp # 0
                                    THEN Append(send_conns.to_worker, worker_temp)
                                    ELSE send_conns.to_worker]
    /\ edit_window' = "shown"
    /\ UNCHANGED <<status, lockin, config, worker_temp, workers, thread_running,
                   started_conns, thread_queue, main_queue, lcd, frame, hist,
                   convVars>>

\* lines 287-305 with MainWindow.update_config (195-197): a new dict is built
\* from the fields; send_config runs MainWindow.update_config at once (same
\* thread) and posts one update_config per connection to the workers' thread
save_slot ==
    /\ edit_window = "shown"
    /\ \E val \in EditInputs :
        LET new == [id |-> hist.saves + 1, val |-> val]
            n == Len(send_conns.to_worker)
        IN  /\ config' = new
            /\ thread_queue' = thread_queue \o
                   [i \in 1..n |-> [w |-> send_conns.to_worker[i], cfg |-> new]]
            /\ workers' = [w \in Workers |->
                             IF Executing(w) THEN [workers[w] EXCEPT !.saved = new.id]
                             ELSE workers[w]]
            /\ frame' = IF \E w \in Workers : workers[w].pc \in {"get_R0", "get_a"}
                        THEN [frame EXCEPT !.swapped = TRUE] ELSE frame
    /\ hist' = [hist EXCEPT !.saves = @ + 1]
    /\ edit_window' = "hidden"
    /\ UNCHANGED <<status, lockin, worker_temp, thread_running, started_conns,
                   send_conns, main_queue, lcd,
                   convVars>>

\* value >= 1 on a temperature.  exp(c(x)) with x = ln q is compared with 1
\* by the sign of c(x) where the signs of its terms decide it.
Ge1(t) ==
    CASE t.k = "nan" -> FALSE
      [] t.k = "pinf" -> TRUE
      [] t.k = "fin" /\ t.c = <<>> -> t.s >= 1
      [] t.k = "fin" /\ t.c # <<>> /\ t.s = 1 /\ t.q[1] >= t.q[2]
            /\ (\A i \in 1..Len(t.c) : t.c[i] >= 0) -> TRUE
      [] t.k = "fin" /\ t.c # <<>> /\ t.s = 1 /\ t.q[1] >= t.q[2]
            /\ (\A i \in 1..Len(t.c) : t.c[i] <= 0) -> FALSE

\* (mutant) the threshold test written "value > 1"
update_LCD_gt(value) ==
    IF Ge1(value) /\ value # TmpInt(1)
    THEN [value |-> value, unit |-> "K"]
    ELSE [value |-> Times1000(value), unit |-> "mK"]

\* lines 199-208
update_LCD(value) ==
    IF Ge1(value)
    THEN [value |-> value, unit |-> "K"]
    ELSE [value |-> Times1000(value), unit |-> "mK"]

\* the GUI thread's event loop delivers the oldest queued update
update_LCD_slot ==
    /\ main_queue # <<>>
    /\ lcd' = update_LCD(Head(main_queue))
    /\ main_queue' = Tail(main_queue)
    /\ hist' = [hist EXCEPT !.lcd_set = TRUE, !.lcd_last = Head(main_queue)]
    /\ UNCHANGED <<status, lockin, config, worker_temp, workers, thread_running,
                   started_conns, thread_queue, edit_window, send_conns, frame,
                   convVars>>

\* ------------------------------------------------------------------------
\* Spec: the panel, its worker thread and the user
\* ------------------------------------------------------------------------
Init ==
    /\ InitGuiVars
    /\ catalog = [top |-> "missing", data |-> NoData]
    /\ liveConfig = CONFIG_DEFAULT
    /\ ruo = NoRuo
    /\ live = NoLive

Next ==
    \/ \E w \in Workers : run_start(w)
    \/ \E w \in Workers : run_test(w)
    \/ \E w \in Workers : get_T_x(w)
    \/ \E w \in Workers : get_T_sv(w)
    \/ \E w \in Workers : get_T_bias(w)
    \/ \E w \in Workers : get_T_R0(w)
    \/ \E w \in Workers : get_T_a(w)
    \/ \E w \in Workers : run_emit(w)
    \/ \E w \in Workers : run_sleep(w)
    \/ update_config
    \/ connect_slot_failed
    \/ connect_slot_connect
    \/ connect_slot_disconnect
    \/ edit_slot
    \/ save_slot
    \/ update_LCD_slot

Spec == Init /\ [][Next]_vars

\* ------------------------------------------------------------------------
\* SpecLCD: update_LCD on every temperature of a bounded set.  The emitter
\* is any worker's update signal; the slot is the one of Spec.
\* ------------------------------------------------------------------------
MaxExponent == 2

LcdValues ==
    { TmpNaN, TmpPInf, TmpInt(0) }
    \cup { Recip(Exp(LinInt(n))) : n \in (-MaxExponent)..MaxExponent }
    \cup { Recip(Exp(LinFin(RatInt(d), <<0, n>>))) :
             d \in 2..(MaxExponent + 1), n \in (-MaxExponent)..MaxExponent }

\* line 74 seen from the GUI thread: some value is emitted and queued
update_emitted ==
    /\ Len(main_queue) < MaxPending
    /\ \E value \in LcdValues : main_queue' = Append(main_queue, value)
    /\ UNCHANGED <<status, lockin, config, worker_temp, workers, thread_running,
                   started_conns, thread_queue, edit_window, send_conns, lcd, frame,
                   hist, convVars>>

NextLCD == update_emitted \/ update_LCD_slot

SpecLCD == Init /\ [][NextLCD]_vars

\* ------------------------------------------------------------------------
\* Claims on the panel
\* ------------------------------------------------------------------------
\* C1: every configuration field one get_T computation uses comes from one
\* and the same configuration dict, also when send_config is emitted while
\* the computation is under way.
C1_OneRecordPerComputation == Cardinality(frame.reads) <= 1

\* a computation finished on the old dict although a save was emitted, and
\* its update_config posted to this worker, after the computation's first read
C1_Witness ==
    \E w \in Workers :
        /\ workers[w].pc = "emit"
        /\ frame.swapped
        /\ frame.reads = {0}
        /\ config.id # 0
        /\ \E i \in 1..Len(thread_queue) : thread_queue[i].w = w

\* C2: a poll iteration that starts after a save made while the worker was
\* polling reads its configuration from the saved dict (or a later one).
C2_PollsUseSavedConfig ==
    \A w \in Workers :
        (workers[w].pc \in {"get_R0", "get_a", "emit"} /\ workers[w].must # 0)
            => \A id \in frame.reads : id >= workers[w].must

\* C3: once stop has been called on a worker, its run loop starts no
\* further iteration, whatever run had executed when stop was called.
C3_NoIterationAfterStop ==
    [][\A w \in Workers :
         (workers[w].stop_called /\ workers[w].pc \in {"start", "test"})
            => workers'[w].pc # "get_x"]_vars

\* C4: a worker whose get_T has raised goes on polling (until it is stopped).
C4_FailureNotSticky ==
    \A w \in Workers :
        workers[w].failed =>
            (Executing(w) \/ (workers[w].stop_called /\ workers[w].pc = "done"))

\* C10: status is 1 exactly when the last successful click was a connect; a
\* failed attempt leaves status 0, lockin None and creates no worker; while
\* status is 1 the current worker's polling loop is running; at most one
\* polling loop is active.
C10_ConnectedMeansPolling ==
    /\ (status = 1) <=> (hist.last_ok = "connect")
    /\ hist.last_failed => (status = 0 /\ lockin = "None")
    /\ Len(workers) = hist.connects
    /\ status = 1 => (worker_temp # 0 /\ Executing(worker_temp))
    /\ Cardinality({w \in Workers : Executing(w)}) <= 1

\* value < 1 (false of nan, like value >= 1)
Lt1(t) == t.k # "nan" /\ ~Ge1(t)

\* C8: the panel shows the last value given to update_LCD: the value and
\* "K" when it is >= 1 (1.0 included), the value times 1000 and "mK" when
\* it is < 1.

C8_UnitSelection ==
    hist.lcd_set =>
        LET value == hist.lcd_last IN
        /\ Ge1(value) => lcd = [value |-> value, unit |-> "K"]
        /\ Lt1(value) => lcd = [value |-> Times1000(value), unit |-> "mK"]
        /\ value = TmpInt(1) => lcd = [value |-> TmpInt(1), unit |-> "K"]

\* the boundary value was shown in Kelvin after a value below 1 had been
\* given and is still waiting to be shown
C8_Witness ==
    /\ hist.lcd_set
    /\ hist.lcd_last = TmpInt(1)
    /\ lcd = [value |-> TmpInt(1), unit |-> "K"]
    /\ main_queue # <<>>
    /\ Lt1(Head(main_queue))

\* ------------------------------------------------------------------------
\* SpecConv: the conversions applied to every input of the bounded sets.
\* Both are pure: a behaviour is one call of each, in either order.
\* ------------------------------------------------------------------------
ValidEntry(e) == e.present /\ e.hasR0 /\ e.hasA
RecordOf(cfg) ==
    [present |-> TRUE, hasR0 |-> TRUE, R0 |-> cfg.R0, hasA |-> TRUE,
     a |-> ConfigCoefs(cfg)]

\* The live configuration enumerated beside a catalog: the one holding the
\* same calibration as the catalog's "s1" record when that record has six
\* coefficients, the zero polynomial otherwise; every bias resistance.
Paired(cat, cfg) ==
    LET e == cat.data["s1"] IN
    IF cat.top = "map" /\ ValidEntry(e) /\ Len(e.a) = 6
    THEN RecordOf(cfg) = e
    ELSE cfg.R0 = 1 /\ ConfigCoefs(cfg) = <<0, 0, 0, 0, 0, 0>>

InitConv ==
    /\ catalog \in Catalogs
    /\ liveConfig \in { c \in LiveConfigs : Paired(catalog, c) }
    /\ ruo = NoRuo
    /\ live = NoLive
    /\ InitGuiVars

CallRuo2 ==
    \E resistance \in Resistances, name \in Names :
        /\ ~ruo.called
        /\ ruo' = [called |-> TRUE, resistance |-> resistance, name |-> name,
                   out |-> temperature_ruo2(catalog, resistance, name)]
        /\ UNCHANGED <<catalog, liveConfig, live>>
        /\ UNCHANGED guiVars

CallGetT ==
    \E v \in Readings, sv \in SineVoltages :
        /\ ~live.called
        /\ live' = [called |-> TRUE, v |-> v, sv |-> sv,
                    out |-> get_T(v, sv, liveConfig)]
        /\ UNCHANGED <<catalog, liveConfig, ruo>>
        /\ UNCHANGED guiVars

NextConv == CallRuo2 \/ CallGetT

SpecConv == InitConv /\ [][NextConv]_vars

\* ------------------------------------------------------------------------
\* Claims on the conversions
\* ------------------------------------------------------------------------
LiveResistance == DerivedResistance(live.v, live.sv, liveConfig.bias_resistance)
LiveDivides == live.called /\ ~DivisionRaises(live.sv, liveConfig.bias_resistance)
RuoEntry == catalog.data[ruo.name]
RuoConverts == ruo.called /\ catalog.top = "map" /\ ValidEntry(RuoEntry)

\* C5: for every coefficient set and every resistance <= R0, the conversion
\* (temperature_ruo2 on a valid record, get_T on the live configuration)
\* ends in a DomainError and returns no value.
C5_DomainErrorBelowR0 ==
    /\ (RuoConverts /\ RatLe(ruo.resistance, RatInt(RuoEntry.R0)))
          => (ruo.out.kind = "raise" /\ ruo.out.exc = "DomainError")
    /\ (LiveDivides /\ RatLe(LiveResistance, RatInt(liveConfig.R0)))
          => (live.out.kind = "raise" /\ live.out.exc = "DomainError")

\* The condition of a load, as the error taxonomy names it
LoadCondition(cat, name) ==
    CASE cat.top \in {"missing", "unparsable", "nokey", "null"} -> "CatalogUnreadable"
      [] cat.top = "map" /\ ~cat.data[name].present -> "SensorNotFound"
      [] cat.top = "map" /\ cat.data[name].present /\ ~ValidEntry(cat.data[name])
            -> "InvalidCalibration"
      [] OTHER -> "loaded"

\* C6: a failing load raises an error whose kind (the exception class) is the
\* same for two loads exactly when the two loads fail under the same
\* condition: CatalogUnreadable, SensorNotFound, InvalidCalibration.
C6_DistinctErrorKinds ==
    (ruo.called /\ LoadCondition(catalog, ruo.name) # "loaded") =>
        \A c2 \in Catalogs, n2 \in Names :
            LoadCondition(c2, n2) # "loaded" =>
                ((LoadCondition(c2, n2) = LoadCondition(catalog, ruo.name))
                    <=> (temperature_ruo2(c2, ruo.resistance, n2).exc = ruo.out.exc))

\* C7: temperature_ruo2 returns a temperature only for a record with both
\* fields present and a non-empty coefficient sequence.
C7_ValidatedRecordOnly ==
    (ruo.called /\ ruo.out.kind = "return") =>
        (catalog.top = "map" /\ ValidEntry(RuoEntry) /\ RuoEntry.a # <<>>)

\* C9: with the catalog record {R0, a: [a0..a5]} equal to the live
\* configuration and a resistance above R0, get_T on readings whose derived
\* resistance is r returns what temperature_ruo2 returns at r, a value.
SameCalibration ==
    /\ LiveDivides
    /\ RuoConverts
    /\ RuoEntry = RecordOf(liveConfig)
    /\ ruo.resistance = LiveResistance
    /\ ~RatLe(LiveResistance, RatInt(liveConfig.R0))

C9_SamePolynomial ==
    SameCalibration => (live.out.kind = "return" /\ live.out = ruo.out)

\* both paths evaluated a polynomial of degree 5 in ln(r - R0), r - R0 # 1
C9_Witness ==
    /\ SameCalibration
    /\ live.out = ruo.out
    /\ live.out.val.k = "fin"
    /\ Len(live.out.val.c) = 6

====
